---- MODULE Spec2Model ----
(***************************************************************************)
(* Lunar-solar calendar engine of hebrew_calendar (src/moon.py).           *)
(*                                                                         *)
(* Dates are whole days (integers).  Three specifications share the        *)
(* variables below:                                                        *)
(*   SpecSabbaths  - enumerate_sabbaths / fn (the reduce over new moons)   *)
(*   SpecNewMoons  - enumerate_new_moons scanning a phase oracle           *)
(*   SpecFeasts    - get_lunar_year_starts and find_feast_days             *)
(*   SpecPhase     - get_moon_phase called at several instants of one date *)
(*   SpecEquinox   - get_vernal_equinox / get_autumn_equinox               *)
(*   SpecRefactored - find_feast_days of the refactored engine             *)
(*   SpecFallback  - find_feast_days with and without a new-moon list      *)
(*   SpecCalendar  - the web app's update_calendar callback                *)
(*   SpecExport    - tools/export_calendar_data.py main                    *)
(***************************************************************************)
EXTENDS Integers, Sequences, FiniteSets, TLC

VARIABLES
    pc,              \* position of the running call
    \* ---- enumerate_sabbaths
    sb_new_moons,    \* argument new_moons: list of new-moon dates
    nms,             \* accumulator of reduce(fn, ...)
    sb_i,            \* index (1-based) of the next element reduce feeds to fn
    sb_first,        \* what the first call on the list returned (<<>> = still running)
    \* ---- phase oracle (ephemeris) and enumerate_new_moons
    onsets,          \* oracle: first day of each lunation's New Moon run
    runs,            \* oracle: number of consecutive New Moon days per lunation
    start_date,
    end_date,
    date_cursor,
    first_day,
    result,          \* keys of the result dict, in insertion order
    new_moon_count,
    queried,         \* days on which get_moon_phase was evaluated
    \* ---- equinox oracle, get_lunar_year_starts, find_feast_days
    new_moons,       \* keys of the new-moon dict handed to the year anchor
    vernal_cross,    \* oracle: March day from which noon declination is >= 0
    autumn_cross,    \* oracle: September day from which noon declination is <= 0
    y,               \* loop variable of get_lunar_year_starts / caller's year
    year_starts,     \* year -> Nisan 1 (0 = no entry)
    nisan_arg,       \* year -> the Nisan 1 passed to find_feast_days (0 = not called)
    leap,            \* year -> leap_offset computed by find_feast_days (-1 = not called)
    feasts,          \* year -> mapping date -> feast name returned for that year
    outcome,         \* year -> how the find_feast_days call ended ("none" = not called)
    \* ---- single calls of get_moon_phase and of the equinox searches
    ph_noon_angle,   \* oracle: Sun-Moon separation at noon of the observed date
    ph_calls,        \* the get_moon_phase calls made so far, with what they returned
    eq_vernal,       \* what get_vernal_equinox(y) returned (0 = not called)
    eq_autumn,       \* what get_autumn_equinox(y) returned (0 = not called)
    \* ---- refactored engine (refactored.py): FeastDays.find_feast_days
    rf_start,        \* year_start: Nisan 1
    rf_end,          \* year_end
    rf_lengths,      \* oracle: lengths of the lunar months that follow rf_start
    rf_leap,         \* is_leap computed by the call (None = not called)
    rf_feasts,       \* mapping date -> feast name the call returned
    \* ---- find_feast_days with and without a new-moon list
    fb_start,        \* year_start: Nisan 1
    fb_called,       \* which of the two calls have returned
    fb_fallback,     \* what find_feast_days(year_start) returned
    fb_from_moons,   \* what find_feast_days(year_start, new_moons) returned
    fb_leap,         \* leap_offset of the call with the list
    \* ---- the web app's update_calendar callback
    cal_date,        \* the current-date store: [year, month, day]
    cal_event,       \* the event of the last callback: [triggered, day, key_dir]
    \* ---- tools/export_calendar_data.py
    ex_output        \* the exported snapshot (<<>> = nothing written)

sbVars == <<sb_new_moons, nms, sb_i, sb_first>>
nmVars == <<onsets, runs, start_date, end_date, date_cursor, first_day,
            result, new_moon_count, queried>>
fdVars == <<new_moons, vernal_cross, autumn_cross, y, year_starts,
            nisan_arg, leap, feasts, outcome>>
phVars == <<ph_noon_angle, ph_calls>>
eqVars == <<eq_vernal, eq_autumn>>
rfVars == <<rf_start, rf_end, rf_lengths, rf_leap, rf_feasts>>
fbVars == <<fb_start, fb_called, fb_fallback, fb_from_moons, fb_leap>>
calVars == <<cal_date, cal_event>>
exVars == <<ex_output>>
callVars == <<phVars, eqVars, rfVars, fbVars, calVars, exVars>>
\* the groups other than one's own
notPh == <<eqVars, rfVars, fbVars, calVars, exVars>>
notEq == <<phVars, rfVars, fbVars, calVars, exVars>>
notRf == <<phVars, eqVars, fbVars, calVars, exVars>>
notFb == <<phVars, eqVars, rfVars, calVars, exVars>>
notCal == <<phVars, eqVars, rfVars, fbVars, exVars>>
notEx == <<phVars, eqVars, rfVars, fbVars, calVars>>
vars == <<pc, sbVars, nmVars, fdVars, callVars>>

(***************************************************************************)
(* Generic helpers                                                         *)
(***************************************************************************)
Range(s) == {s[i] : i \in 1..Len(s)}

Max(S) == CHOOSE x \in S : \A z \in S : z <= x

Min(S) == CHOOSE x \in S : \A z \in S : x <= z

Abs(x) == IF x < 0 THEN -x ELSE x

\* number of elements of Python's range(start, stop, step), step > 0
PyRangeLen(start, stop, step) ==
    IF stop <= start THEN 0 ELSE (stop - start + step - 1) \div step

\* ---- idle values of the variables a specification does not use
sbIdle == sb_new_moons = <<>> /\ nms = <<>> /\ sb_i = 0 /\ sb_first = <<>>

nmIdle ==
    /\ onsets = <<>> /\ runs = <<>>
    /\ start_date = 0 /\ end_date = 0 /\ date_cursor = 0 /\ first_day = 0
    /\ result = <<>> /\ new_moon_count = 0 /\ queried = {}

fdIdle ==
    /\ new_moons = {} /\ vernal_cross = 0 /\ autumn_cross = 0 /\ y = 0
    /\ year_starts = <<>> /\ nisan_arg = <<>> /\ leap = <<>> /\ feasts = <<>>
    /\ outcome = <<>>

phIdle == ph_noon_angle = 0 /\ ph_calls = <<>>

eqIdle == eq_vernal = 0 /\ eq_autumn = 0

rfIdle ==
    /\ rf_start = 0 /\ rf_end = 0 /\ rf_lengths = <<>> /\ rf_leap = 0
    /\ rf_feasts = <<>>

fbIdle ==
    /\ fb_start = 0 /\ fb_called = {} /\ fb_fallback = <<>>
    /\ fb_from_moons = <<>> /\ fb_leap = 0

calIdle == cal_date = <<>> /\ cal_event = <<>>

exIdle == ex_output = <<>>

callIdle == phIdle /\ eqIdle /\ rfIdle /\ fbIdle /\ calIdle /\ exIdle

notPhIdle == eqIdle /\ rfIdle /\ fbIdle /\ calIdle /\ exIdle

notEqIdle == phIdle /\ rfIdle /\ fbIdle /\ calIdle /\ exIdle

notRfIdle == phIdle /\ eqIdle /\ fbIdle /\ calIdle /\ exIdle

notFbIdle == phIdle /\ eqIdle /\ rfIdle /\ calIdle /\ exIdle

notCalIdle == phIdle /\ eqIdle /\ rfIdle /\ fbIdle /\ exIdle

notExIdle == phIdle /\ eqIdle /\ rfIdle /\ fbIdle /\ calIdle

(***************************************************************************)
(* enumerate_sabbaths                                                      *)
(***************************************************************************)
\* bounds of the input lists
MaxMoons == 4

\* gaps between consecutive new moons of an input list; 28..31 is what the
\* repository's own spacing test admits, 7 makes a weekly candidate coincide
\* with the next new moon
SabbathGaps == {1, 7, 8, 28, 29, 30, 31}

SabbathStep == 7

\* fn with the comprehension's upper bound made inclusive
fn_inclusive(acc, nm) ==
    LET last_sabbath == acc[Len(acc)]
        n == PyRangeLen(SabbathStep, (nm - last_sabbath) + 1, SabbathStep)
        sabbaths_between == [k \in 1..n |-> last_sabbath + SabbathStep * k]
    IN  acc \o sabbaths_between \o <<nm>>

\* fn with the comprehension stopping one day early
fn_short(acc, nm) ==
    LET last_sabbath == acc[Len(acc)]
        n == PyRangeLen(SabbathStep, (nm - last_sabbath) - 1, SabbathStep)
        sabbaths_between == [k \in 1..n |-> last_sabbath + SabbathStep * k]
    IN  acc \o sabbaths_between \o <<nm>>

\* fn that forgets to append the new moon itself
fn_drop_nm(acc, nm) ==
    LET last_sabbath == acc[Len(acc)]
        n == PyRangeLen(SabbathStep, nm - last_sabbath, SabbathStep)
        sabbaths_between == [k \in 1..n |-> last_sabbath + SabbathStep * k]
    IN  acc \o sabbaths_between

\* fn whose comprehension starts at i = 0
fn_from_zero(acc, nm) ==
    LET last_sabbath == acc[Len(acc)]
        n == PyRangeLen(0, nm - last_sabbath, SabbathStep)
        sabbaths_between == [k \in 1..n |-> last_sabbath + SabbathStep * (k - 1)]
    IN  acc \o sabbaths_between \o <<nm>>

\* fn reading the last Sabbath from what an earlier call left behind
fn_remembers(acc, nm) ==
    LET last_sabbath == IF sb_first # <<>> /\ Len(acc) = 1
                        THEN sb_first[Len(sb_first)] ELSE acc[Len(acc)]
        n == PyRangeLen(SabbathStep, nm - last_sabbath, SabbathStep)
        sabbaths_between == [k \in 1..n |-> last_sabbath + SabbathStep * k]
    IN  acc \o sabbaths_between \o <<nm>>

\* fn(nms, nm): nms + [last + i for i in range(7, (nm - last).days, 7)] + [nm]
fn(acc, nm) ==
    LET last_sabbath == acc[Len(acc)]
        n == PyRangeLen(SabbathStep, nm - last_sabbath, SabbathStep)
        sabbaths_between == [k \in 1..n |-> last_sabbath + SabbathStep * k]
    IN  acc \o sabbaths_between \o <<nm>>

\* strictly increasing lists of 1..MaxMoons dates starting at day 0
RECURSIVE MoonLists(_)
MoonLists(n) ==
    IF n = 1 THEN {<<0>>}
    ELSE {Append(s, s[Len(s)] + g) : s \in MoonLists(n - 1), g \in SabbathGaps}

SabbathInputs == UNION {MoonLists(n) : n \in 1..MaxMoons}

InitSabbaths ==
    /\ pc = "sb_call"
    /\ sb_new_moons \in SabbathInputs
    /\ nms = <<>>
    /\ sb_i = 0
    /\ sb_first = <<>>
    /\ nmIdle
    /\ fdIdle
    /\ callIdle

\* reduce(fn, new_moons[1:], [new_moons[0]]): the initial accumulator
enumerate_sabbaths ==
    /\ pc = "sb_call"
    /\ nms' = <<sb_new_moons[1]>>
    /\ sb_i' = 2
    /\ pc' = IF Len(sb_new_moons) < 2 THEN "sb_done" ELSE "sb_reduce"
    /\ UNCHANGED <<sb_new_moons, sb_first, nmVars, fdVars, callVars>>

\* one step of the reduce: nms := fn(nms, new_moons[sb_i])
reduce_step ==
    /\ pc = "sb_reduce"
    /\ nms' = fn(nms, sb_new_moons[sb_i])
    /\ sb_i' = sb_i + 1
    /\ pc' = IF sb_i + 1 > Len(sb_new_moons) THEN "sb_done" ELSE "sb_reduce"
    /\ UNCHANGED <<sb_new_moons, sb_first, nmVars, fdVars, callVars>>

\* the caller keeps the list the first call returned and calls
\* enumerate_sabbaths again on the same list object
enumerate_sabbaths_again ==
    /\ pc = "sb_done"
    /\ sb_first = <<>>
    /\ sb_first' = nms
    /\ nms' = <<sb_new_moons[1]>>
    /\ sb_i' = 2
    /\ pc' = IF Len(sb_new_moons) < 2 THEN "sb_done" ELSE "sb_reduce"
    /\ UNCHANGED <<sb_new_moons, nmVars, fdVars, callVars>>

NextSabbaths == enumerate_sabbaths \/ reduce_step \/ enumerate_sabbaths_again

SpecSabbaths == InitSabbaths /\ [][NextSabbaths]_vars

\* number of positions of list s that hold x
Occurrences(s, x) == Cardinality({i \in 1..Len(s) : s[i] = x})

\* C1: every new moon of the argument list (first, middle, last) is an
\* element of the list enumerate_sabbaths returns
C1_NewMoonsAreSabbaths ==
    pc = "sb_done" =>
        \A i \in 1..Len(sb_new_moons) : sb_new_moons[i] \in Range(nms)

C1_Witness == pc = "sb_done" /\ Len(sb_new_moons) >= 3

\* C2: between consecutive new moons n1 < n2 the returned Sabbaths are exactly
\* the dates n1 + 7k (k >= 1) strictly earlier than n2, and a candidate equal
\* to n2 is not emitted as a weekly Sabbath (n2 is returned once only)
C2_WeeklySabbathsBetween ==
    pc = "sb_done" =>
        \A i \in 1..(Len(sb_new_moons) - 1) :
            LET n1 == sb_new_moons[i]
                n2 == sb_new_moons[i + 1]
            IN  n1 < n2 =>
                  /\ {s \in Range(nms) : n1 < s /\ s < n2}
                       = {d \in (n1 + 1)..(n2 - 1) : (d - n1) % 7 = 0}
                  /\ Occurrences(nms, n2) = 1

C2_Witness ==
    /\ pc = "sb_done"
    /\ \E i \in 1..(Len(sb_new_moons) - 1) :
          sb_new_moons[i + 1] - sb_new_moons[i] = 28
    /\ \E i \in 1..(Len(sb_new_moons) - 1) :
          sb_new_moons[i + 1] - sb_new_moons[i] = 30

\* the latest returned Sabbath strictly before date d
LastSabbathBefore(d) == Max({s \in Range(nms) : s < d})

\* C3: when two consecutive new moons are 29 days apart the last weekly
\* Sabbath of that month is the day before the next new moon (two Sabbaths
\* on consecutive days); for a 30-day month the gap is 2 days
C3_DoubleSabbathBoundary ==
    pc = "sb_done" =>
        \A i \in 1..(Len(sb_new_moons) - 1) :
            LET n1 == sb_new_moons[i]
                n2 == sb_new_moons[i + 1]
            IN  /\ n2 - n1 = 29 =>
                      /\ n2 - LastSabbathBefore(n2) = 1
                      /\ (n2 - 1) \in Range(nms) /\ n2 \in Range(nms)
                /\ n2 - n1 = 30 => n2 - LastSabbathBefore(n2) = 2

C3_Witness ==
    /\ pc = "sb_done"
    /\ \E i \in 1..(Len(sb_new_moons) - 1) :
          sb_new_moons[i + 1] - sb_new_moons[i] = 29
    /\ \E i \in 1..(Len(sb_new_moons) - 1) :
          sb_new_moons[i + 1] - sb_new_moons[i] = 30

\* C4: four new moons 29 or 30 days apart yield exactly 20 Sabbath dates,
\* five per new moon including the last new moon of the list
C4_TwentySabbaths ==
    (/\ pc = "sb_done"
     /\ Len(sb_new_moons) = 4
     /\ \A i \in 1..3 : sb_new_moons[i + 1] - sb_new_moons[i] \in {29, 30})
        => Len(nms) = 20

(***************************************************************************)
(* Phase oracle and get_moon_phase                                         *)
(***************************************************************************)
\* bounds of the oracle: lunations it describes, longest New Moon run,
\* latest end of a scanned range
NumLunations == 4

MaxRun == 3

MaxEnd == 90

\* gaps between the onsets of consecutive lunations
LunationGaps == {29, 30}

NewMoonThreshold == 12

\* the moon-sun separation on day d for one lunation: zero at the middle of
\* its New Moon run, at most NewMoonThreshold exactly on the days of the run
LunationAngle(d, onset, run) ==
    LET slope == IF run = 1 THEN NewMoonThreshold
                 ELSE NewMoonThreshold \div (run - 1)
    IN  slope * Abs(2 * d - (2 * onset + run - 1))

\* moon.separation(sun).degree at noon of day d, in whole degrees
phase_angle(d) ==
    LET as == {LunationAngle(d, onsets[i], runs[i]) : i \in 1..Len(onsets)}
        a  == Min(as)
    IN  IF a > 180 THEN 180 ELSE a

\* the classification with the threshold angle itself outside New Moon
get_moon_phase_open(angle) ==
    IF angle < NewMoonThreshold THEN "New Moon"
    ELSE IF angle < 60 THEN "Waxing Crescent"
    ELSE IF angle < 110 THEN "First Quarter"
    ELSE IF angle < 160 THEN "Waxing Gibbous"
    ELSE IF angle < 210 THEN "Full Moon"
    ELSE IF angle < 260 THEN "Waning Gibbous"
    ELSE IF angle < 310 THEN "Third Quarter"
    ELSE "Waning Crescent"

\* the classification of get_moon_phase
get_moon_phase(angle) ==
    IF angle <= NewMoonThreshold THEN "New Moon"
    ELSE IF angle < 60 THEN "Waxing Crescent"
    ELSE IF angle < 110 THEN "First Quarter"
    ELSE IF angle < 160 THEN "Waxing Gibbous"
    ELSE IF angle < 210 THEN "Full Moon"
    ELSE IF angle < 260 THEN "Waning Gibbous"
    ELSE IF angle < 310 THEN "Third Quarter"
    ELSE "Waning Crescent"

\* phase, _ = get_moon_phase(_at_noon(d))
phase_on(d) == get_moon_phase(phase_angle(d))

(***************************************************************************)
(* enumerate_new_moons                                                     *)
(***************************************************************************)
\* no skip at all: the cursor is put back on the recorded day
SkipDays_none == 29 - 29

\* a skip two days longer than the code's
SkipDays_long == 29 + 2

\* date_cursor = first_day + timedelta(days=29)
SkipDays == 29

\* backward walk without the start boundary
walk_guard_unbounded(fd, sd) == TRUE

\* while first_day > start_date
walk_guard(fd, sd) == fd > sd

RECURSIVE OnsetSeqs(_)
OnsetSeqs(n) ==
    IF n = 1 THEN {<<f>> : f \in (1 - MaxRun)..3}
    ELSE {Append(s, s[Len(s)] + g) : s \in OnsetSeqs(n - 1), g \in LunationGaps}

\* -1: an end_date before start_date
EndDates == {-1, 28, 29, 58, MaxEnd}

InitNewMoons ==
    /\ pc = "nm_loop"
    /\ onsets \in OnsetSeqs(NumLunations)
    /\ runs \in [1..NumLunations -> 1..MaxRun]
    /\ start_date = 0
    /\ end_date \in EndDates
    /\ date_cursor = start_date
    /\ first_day = start_date
    /\ result = <<>>
    /\ new_moon_count = 0
    /\ queried = {}
    /\ sbIdle
    /\ fdIdle
    /\ callIdle

\* while date_cursor <= end_date fails: return result
nm_exit ==
    /\ pc = "nm_loop"
    /\ ~(date_cursor <= end_date)
    /\ pc' = "nm_done"
    /\ UNCHANGED <<sbVars, nmVars, fdVars, callVars>>

\* the else branch: the cursor's day is not New Moon, advance one day
nm_step_day ==
    /\ pc = "nm_loop"
    /\ date_cursor <= end_date
    /\ phase_on(date_cursor) # "New Moon"
    /\ queried' = queried \cup {date_cursor}
    /\ date_cursor' = date_cursor + 1
    /\ UNCHANGED <<pc, sbVars, fdVars, callVars, onsets, runs, start_date, end_date,
                   first_day, result, new_moon_count>>

\* the cursor's day is New Moon: first_day = date_cursor, enter the walk
nm_found ==
    /\ pc = "nm_loop"
    /\ date_cursor <= end_date
    /\ phase_on(date_cursor) = "New Moon"
    /\ queried' = queried \cup {date_cursor}
    /\ first_day' = date_cursor
    /\ pc' = "nm_walk"
    /\ UNCHANGED <<sbVars, fdVars, callVars, onsets, runs, start_date, end_date,
                   date_cursor, result, new_moon_count>>

\* one iteration of the backward walk whose previous day is New Moon
nm_walk_back ==
    /\ pc = "nm_walk"
    /\ walk_guard(first_day, start_date)
    /\ phase_on(first_day - 1) = "New Moon"
    /\ queried' = queried \cup {first_day - 1}
    /\ first_day' = first_day - 1
    /\ UNCHANGED <<pc, sbVars, fdVars, callVars, onsets, runs, start_date, end_date,
                   date_cursor, result, new_moon_count>>

\* the walk ends (boundary reached or previous day not New Moon):
\* result[first_day] = first_angle, then skip ahead
nm_record ==
    /\ pc = "nm_walk"
    /\ \/ /\ ~walk_guard(first_day, start_date)
          /\ UNCHANGED queried
       \/ /\ walk_guard(first_day, start_date)
          /\ phase_on(first_day - 1) # "New Moon"
          /\ queried' = queried \cup {first_day - 1}
    /\ new_moon_count' = new_moon_count + 1
    /\ result' = IF first_day \in Range(result) THEN result
                 ELSE Append(result, first_day)
    /\ date_cursor' = first_day + SkipDays
    /\ pc' = "nm_loop"
    /\ UNCHANGED <<sbVars, fdVars, callVars, onsets, runs, start_date, end_date, first_day>>

NextNewMoons ==
    nm_exit \/ nm_step_day \/ nm_found \/ nm_walk_back \/ nm_record

SpecNewMoons == InitNewMoons /\ [][NextNewMoons]_vars

\* what the oracle says, independently of the scan
IsNewMoonDay(d) ==
    \E i \in 1..Len(onsets) : onsets[i] <= d /\ d < onsets[i] + runs[i]

IsOnset(d) == \E i \in 1..Len(onsets) : onsets[i] = d

\* C5 (as stated): recorded dates are strictly increasing and every two
\* consecutive recorded dates are 29 or 30 days apart, for every range
C5_GapsAlways29or30 ==
    \A i \in 1..(Len(result) - 1) :
        /\ result[i] < result[i + 1]
        /\ result[i + 1] - result[i] \in {29, 30}

\* C5 (amended): recorded dates are strictly increasing, every two
\* consecutive recorded dates whose earlier one is a lunation onset are 29 or
\* 30 days apart, and the only recorded date that is not an onset is a range
\* start lying inside a New Moon run (the gap after it is not so bounded)
C5_GapsFromOnset ==
    \A i \in 1..(Len(result) - 1) :
        /\ result[i] < result[i + 1]
        /\ (IsOnset(result[i]) => result[i + 1] - result[i] \in {29, 30})
        /\ (~IsOnset(result[i]) => (i = 1 /\ result[i] = start_date))

C5_Witness ==
    /\ pc = "nm_done"
    /\ Len(result) >= 3
    /\ ~IsOnset(result[1])
    /\ result[2] - result[1] \notin {29, 30}
    /\ result[3] - result[2] \in {29, 30}

\* C6: no lunation is missed: every day of [start, end] that is New Moon
\* while the day before is not, and whose preceding onset is at least 28
\* days earlier, is in the result when the scan returns
C6_NoLunationMissed ==
    pc = "nm_done" =>
        \A d \in start_date..end_date :
            (/\ phase_on(d) = "New Moon"
             /\ phase_on(d - 1) # "New Moon"
             /\ \A i \in 1..Len(onsets) : onsets[i] < d => d - onsets[i] >= 28)
                => d \in Range(result)

\* C7: every recorded date is a New Moon day not earlier than start and is
\* the range's first day or follows a non-New-Moon day; a New Moon first day
\* (of a range that has one, start <= end) is recorded once, and no day
\* before start is evaluated or recorded
C7_RecordsAreOnsetsWithinRange ==
    /\ \A i \in 1..Len(result) :
          /\ phase_on(result[i]) = "New Moon"
          /\ result[i] >= start_date
          /\ (result[i] = start_date \/ phase_on(result[i] - 1) # "New Moon")
    /\ \A q \in queried : q >= start_date
    /\ new_moon_count = Len(result)
    /\ ((pc = "nm_done" /\ start_date <= end_date
            /\ phase_on(start_date) = "New Moon")
           => Occurrences(result, start_date) = 1)

C7_Witness ==
    /\ pc = "nm_done"
    /\ phase_on(start_date) = "New Moon"
    /\ IsNewMoonDay(start_date - 1)
    /\ Len(result) >= 2
    /\ result[1] = start_date

(***************************************************************************)
(* Civil dates: a date is its proleptic Gregorian ordinal (date.toordinal) *)
(***************************************************************************)
IsLeapYear(yr) == (yr % 4 = 0 /\ yr % 100 # 0) \/ yr % 400 = 0

DaysInMonth(yr, m) ==
    IF m = 2 THEN (IF IsLeapYear(yr) THEN 29 ELSE 28)
    ELSE IF m \in {4, 6, 9, 11} THEN 30 ELSE 31

RECURSIVE DaysBeforeMonth(_, _)
DaysBeforeMonth(yr, m) ==
    IF m = 1 THEN 0 ELSE DaysBeforeMonth(yr, m - 1) + DaysInMonth(yr, m - 1)

DaysBeforeYear(yr) ==
    LET p == yr - 1 IN p * 365 + (p \div 4) - (p \div 100) + (p \div 400)

\* dt.date(yr, m, d)
Ordinal(yr, m, d) == DaysBeforeYear(yr) + DaysBeforeMonth(yr, m) + d

\* the years the model's dates can fall in
Years == 2023..2025

\* d.year
YearOf(n) ==
    CHOOSE yr \in (2022..2026) :
        Ordinal(yr, 1, 1) <= n /\ n < Ordinal(yr + 1, 1, 1)

(***************************************************************************)
(* Equinox finder                                                          *)
(***************************************************************************)
\* the vernal search with a window one day shorter, range(18, 24)
get_vernal_equinox_short(yr) ==
    LET hits == {day \in 18..23 : day >= vernal_cross}
    IN  IF hits = {} THEN Ordinal(yr, 3, 20) ELSE Ordinal(yr, 3, Min(hits))

\* get_vernal_equinox: first day of Mar 18..24 whose noon declination is
\* >= 0 (the oracle: every March day from vernal_cross on), else Mar 20
get_vernal_equinox(yr) ==
    LET hits == {day \in 18..24 : day >= vernal_cross}
    IN  IF hits = {} THEN Ordinal(yr, 3, 20) ELSE Ordinal(yr, 3, Min(hits))

\* get_autumn_equinox: first day of Sep 20..26 whose noon declination is
\* <= 0 (the oracle: every September day from autumn_cross on), else Sep 22
get_autumn_equinox(yr) ==
    LET hits == {day \in 20..26 : day >= autumn_cross}
    IN  IF hits = {} THEN Ordinal(yr, 9, 22) ELSE Ordinal(yr, 9, Min(hits))

(***************************************************************************)
(* The feast registry (class FeastDays)                                    *)
(***************************************************************************)
\* the registry with Tabernacles ending on day 21
FeastTable_seven == <<
    [name |-> "Passover (Pesach)", lunar_month |-> 1, days |-> <<14>>],
    [name |-> "Feast of Unleavened Bread", lunar_month |-> 1,
        days |-> <<15, 16, 17, 18, 19, 20, 21>>],
    [name |-> "Feast of Weeks (Shavuot)", lunar_month |-> 1, days |-> <<50>>],
    [name |-> "Feast of Trumpets (Rosh Hashanah)", lunar_month |-> 7,
        days |-> <<1>>],
    [name |-> "Day of Atonement (Yom Kippur)", lunar_month |-> 7,
        days |-> <<10>>],
    [name |-> "Feast of Tabernacles (Sukkot)", lunar_month |-> 7,
        days |-> <<15, 16, 17, 18, 19, 20, 21>>],
    [name |-> "Purim", lunar_month |-> 12, days |-> <<14, 15>>],
    [name |-> "Hanukkah (Feast of Dedication)", lunar_month |-> 9,
        days |-> <<25, 26, 27, 28, 29, 30, 31, 32>>] >>

FeastTable == <<
    [name |-> "Passover (Pesach)", lunar_month |-> 1, days |-> <<14>>],
    [name |-> "Feast of Unleavened Bread", lunar_month |-> 1,
        days |-> <<15, 16, 17, 18, 19, 20, 21>>],
    [name |-> "Feast of Weeks (Shavuot)", lunar_month |-> 1, days |-> <<50>>],
    [name |-> "Feast of Trumpets (Rosh Hashanah)", lunar_month |-> 7,
        days |-> <<1>>],
    [name |-> "Day of Atonement (Yom Kippur)", lunar_month |-> 7,
        days |-> <<10>>],
    [name |-> "Feast of Tabernacles (Sukkot)", lunar_month |-> 7,
        days |-> <<15, 16, 17, 18, 19, 20, 21, 22>>],
    [name |-> "Purim", lunar_month |-> 12, days |-> <<14, 15>>],
    [name |-> "Hanukkah (Feast of Dedication)", lunar_month |-> 9,
        days |-> <<25, 26, 27, 28, 29, 30, 31, 32>>] >>

(***************************************************************************)
(* find_feast_days / _find_feast_days_from_moons                           *)
(***************************************************************************)
\* sorted(new_moons): the ascending list of a set of dates
RECURSIVE SortedSeq(_)
SortedSeq(S) ==
    IF S = {} THEN <<>>
    ELSE LET m == Min(S) IN <<m>> \o SortedSeq(S \ {m})

None == -1

\* first 0-based index i of list s from position i on that satisfies
\* s[i] = target (tol = 0) or abs((s[i] - target).days) <= tol
RECURSIVE FirstWithin(_, _, _, _)
FirstWithin(s, target, tol, i) ==
    IF i >= Len(s) THEN None
    ELSE IF Abs(s[i + 1] - target) <= tol THEN i
    ELSE FirstWithin(s, target, tol, i + 1)

\* nisan_idx: the exact date match, else the first moon within one day
find_nisan_idx(sorted_moons, nisan_new_moon) ==
    LET exact == FirstWithin(sorted_moons, nisan_new_moon, 0, 0)
    IN  IF exact # None THEN exact
        ELSE FirstWithin(sorted_moons, nisan_new_moon, 1, 0)

LeapWindow == 5

\* leap_offset with the equinox day itself excluded from the window
leap_offset_open(sorted_moons, nisan_idx, nisan_new_moon) ==
    LET autumn_eq == get_autumn_equinox(YearOf(nisan_new_moon))
        tishri_6_idx == nisan_idx + 6
        tishri_7_idx == nisan_idx + 7
    IN  IF tishri_6_idx < Len(sorted_moons) /\ tishri_7_idx < Len(sorted_moons)
        THEN LET days_7_before_eq == autumn_eq - sorted_moons[tishri_7_idx + 1]
             IN  IF days_7_before_eq > 0 /\ days_7_before_eq <= LeapWindow
                 THEN 1 ELSE 0
        ELSE 0

\* leap_offset of _find_feast_days_from_moons
leap_offset_of(sorted_moons, nisan_idx, nisan_new_moon) ==
    LET autumn_eq == get_autumn_equinox(YearOf(nisan_new_moon))
        tishri_6_idx == nisan_idx + 6
        tishri_7_idx == nisan_idx + 7
    IN  IF tishri_6_idx < Len(sorted_moons) /\ tishri_7_idx < Len(sorted_moons)
        THEN LET days_7_before_eq == autumn_eq - sorted_moons[tishri_7_idx + 1]
             IN  IF days_7_before_eq >= 0 /\ days_7_before_eq <= LeapWindow
                 THEN 1 ELSE 0
        ELSE 0

\* month_idx with the leap shift applied from month 8 on only
month_idx_late(nisan_idx, month_num, leap_offset) ==
    IF month_num > 7 THEN nisan_idx + month_num - 1 + leap_offset
    ELSE nisan_idx + month_num - 1

\* month_idx: months 7+ take the leap offset
month_idx_of(nisan_idx, month_num, leap_offset) ==
    IF month_num >= 7 THEN nisan_idx + month_num - 1 + leap_offset
    ELSE nisan_idx + month_num - 1

\* the inner loop: result[month_start + (day - 1)] = fd.value for each day
RECURSIVE put_days(_, _, _, _, _)
put_days(res, month_start, days, name, k) ==
    IF k > Len(days) THEN res
    ELSE put_days(((month_start + (days[k] - 1)) :> name) @@ res,
                  month_start, days, name, k + 1)

\* the loop over the registry, in definition order; a later entry
\* overwrites an earlier one on the same date
RECURSIVE put_feasts(_, _, _, _, _)
put_feasts(res, sorted_moons, nisan_idx, leap_offset, f) ==
    IF f > Len(FeastTable) THEN res
    ELSE LET fd == FeastTable[f]
             month_idx == month_idx_of(nisan_idx, fd.lunar_month, leap_offset)
             res2 == IF month_idx < Len(sorted_moons)
                     THEN put_days(res, sorted_moons[month_idx + 1],
                                   fd.days, fd.name, 1)
                     ELSE res
         IN  put_feasts(res2, sorted_moons, nisan_idx, leap_offset, f + 1)

\* _find_feast_days_from_moons: the leap offset it used, the dict it returns
\* and how the call ends (both exits are return statements)
find_feast_days_from_moons(nisan_new_moon, moons) ==
    LET sorted_moons == SortedSeq(moons)
        nisan_idx == find_nisan_idx(sorted_moons, nisan_new_moon)
    IN  IF nisan_idx = None
        THEN [nisan_idx |-> None, leap_offset |-> 0, result |-> <<>>,
              outcome |-> "returned"]
        ELSE LET lo == leap_offset_of(sorted_moons, nisan_idx, nisan_new_moon)
             IN  [nisan_idx |-> nisan_idx, leap_offset |-> lo,
                  result |-> put_feasts(<<>>, sorted_moons, nisan_idx, lo, 1),
                  outcome |-> "returned"]

(***************************************************************************)
(* get_lunar_year_starts                                                   *)
(***************************************************************************)
PassoverDay == 13

PassoverThreshold == 20

\* the loop's test with the equinox date itself counted as "before"
is_before_or_on(m, vernal_eq) == m <= vernal_eq

\* the loop's test: m.date() < vernal_eq
is_before(m, vernal_eq) == m < vernal_eq

\* the bracketing loop: the last moon dated before the equinox and the first
\* one that is not (0 = None); the loop breaks at that first one
RECURSIVE bracket(_, _, _, _)
bracket(sorted_moons, vernal_eq, i, before) ==
    IF i > Len(sorted_moons) THEN <<before, 0>>
    ELSE IF is_before(sorted_moons[i], vernal_eq)
         THEN bracket(sorted_moons, vernal_eq, i + 1, sorted_moons[i])
         ELSE <<before, sorted_moons[i]>>

\* one iteration of the loop over the years: the entry added for yr (0 = none)
\* the year anchor with the threshold a week lower
year_start_early(moons, yr) ==
    LET vernal_eq == get_vernal_equinox(yr)
        cands == bracket(SortedSeq(moons), vernal_eq, 1, 0)
        candidate_before == cands[1]
        candidate_after == cands[2]
        passover_before == candidate_before + PassoverDay
        days_before_eq == vernal_eq - passover_before
    IN  IF candidate_before = 0 THEN 0
        ELSE IF days_before_eq <= PassoverThreshold - 7 THEN candidate_before
        ELSE IF candidate_after # 0 THEN candidate_after
        ELSE candidate_before

\* the year anchor handing back the Passover date of the chosen month
year_start_passover(moons, yr) ==
    LET vernal_eq == get_vernal_equinox(yr)
        cands == bracket(SortedSeq(moons), vernal_eq, 1, 0)
        candidate_before == cands[1]
        candidate_after == cands[2]
        passover_before == candidate_before + PassoverDay
        days_before_eq == vernal_eq - passover_before
    IN  IF candidate_before = 0 THEN 0
        ELSE IF days_before_eq <= PassoverThreshold THEN passover_before
        ELSE IF candidate_after # 0 THEN candidate_after
        ELSE candidate_before

\* the year anchor with the threshold day itself excluded
year_start_strict(moons, yr) ==
    LET vernal_eq == get_vernal_equinox(yr)
        cands == bracket(SortedSeq(moons), vernal_eq, 1, 0)
        candidate_before == cands[1]
        candidate_after == cands[2]
        passover_before == candidate_before + PassoverDay
        days_before_eq == vernal_eq - passover_before
    IN  IF candidate_before = 0 THEN 0
        ELSE IF days_before_eq < PassoverThreshold THEN candidate_before
        ELSE IF candidate_after # 0 THEN candidate_after
        ELSE candidate_before

year_start_of(moons, yr) ==
    LET vernal_eq == get_vernal_equinox(yr)
        cands == bracket(SortedSeq(moons), vernal_eq, 1, 0)
        candidate_before == cands[1]
        candidate_after == cands[2]
        passover_before == candidate_before + PassoverDay
        days_before_eq == vernal_eq - passover_before
    IN  IF candidate_before = 0 THEN 0
        ELSE IF days_before_eq <= PassoverThreshold THEN candidate_before
        ELSE IF candidate_after # 0 THEN candidate_after
        ELSE candidate_before

(***************************************************************************)
(* The caller's pass (app._build_data): anchor the years, then project the *)
(* feasts of every anchored year                                           *)
(***************************************************************************)
\* bound: number of new moons in the supplied collection
NumMoons == 16

\* mean synodic month in hundredths of a day
SynodicHundredths == 2953

\* a new-moon collection: day-rounded multiples of the synodic month
MoonDates(first, frac) ==
    {first + ((frac + k * SynodicHundredths) \div 100) : k \in 0..(NumMoons - 1)}

FirstMoons == {Ordinal(2023, 2, 15) + k : k \in 0..43}

DayFractions == {0, 25, 50, 75}

\* which lunation the collection lacks (0 = none): enumerate_new_moons can
\* jump over the lunation that follows a range start inside a New Moon run
MissedLunations == {0, 2}

\* the collection without its k-th date
WithoutLunation(moons, k) ==
    IF k = 0 THEN moons ELSE moons \ {SortedSeq(moons)[k]}

VernalCrossDays == {20, 21, 25}

AutumnCrossDays == {22, 23, 27}

InitFeasts ==
    /\ pc = "ys_loop"
    /\ \E first \in FirstMoons, frac \in DayFractions, k \in MissedLunations :
          new_moons = WithoutLunation(MoonDates(first, frac), k)
    /\ vernal_cross \in VernalCrossDays
    /\ autumn_cross \in AutumnCrossDays
    /\ y = Min(Years)
    /\ year_starts = [yr \in Years |-> 0]
    /\ nisan_arg = [yr \in Years |-> 0]
    /\ leap = [yr \in Years |-> None]
    /\ feasts = [yr \in Years |-> <<>>]
    /\ outcome = [yr \in Years |-> "none"]
    /\ sbIdle
    /\ nmIdle
    /\ callIdle

\* get_lunar_year_starts: one iteration of for y in range(start_year, end_year + 1)
anchor_year ==
    /\ pc = "ys_loop"
    /\ y \in Years
    /\ year_starts' = [year_starts EXCEPT ![y] = year_start_of(new_moons, y)]
    /\ y' = y + 1
    /\ UNCHANGED <<pc, sbVars, nmVars, callVars, new_moons, vernal_cross, autumn_cross,
                   nisan_arg, leap, feasts, outcome>>

\* get_lunar_year_starts returns; the caller starts its loop over the anchors
anchor_return ==
    /\ pc = "ys_loop"
    /\ y \notin Years
    /\ pc' = "fd_loop"
    /\ y' = Min(Years)
    /\ UNCHANGED <<sbVars, nmVars, callVars, new_moons, vernal_cross, autumn_cross,
                   year_starts, nisan_arg, leap, feasts, outcome>>

\* FeastDays.find_feast_days(nisan, new_moon_list) for year y
call_find_feast_days(nisan) ==
    LET r == find_feast_days_from_moons(nisan, new_moons)
    IN  /\ nisan_arg' = [nisan_arg EXCEPT ![y] = nisan]
        /\ leap' = [leap EXCEPT ![y] = r.leap_offset]
        /\ feasts' = [feasts EXCEPT ![y] = r.result]
        /\ outcome' = [outcome EXCEPT ![y] = r.outcome]
        /\ y' = y + 1
        /\ UNCHANGED <<pc, sbVars, nmVars, callVars, new_moons, vernal_cross,
                       autumn_cross, year_starts>>

\* for y, start in year_starts.items(): find_feast_days(start, new_moon_list)
find_feast_days ==
    /\ pc = "fd_loop"
    /\ y \in Years
    /\ year_starts[y] # 0
    /\ call_find_feast_days(year_starts[y])

\* find_feast_days called with a Nisan 1 that is one or two days off the
\* collection's new moon (a date from another source)
find_feast_days_near ==
    /\ pc = "fd_loop"
    /\ y \in Years
    /\ year_starts[y] # 0
    /\ \E delta \in {1, 2} : call_find_feast_days(year_starts[y] + delta)

\* a year without anchor has no item in year_starts
fd_skip ==
    /\ pc = "fd_loop"
    /\ y \in Years
    /\ year_starts[y] = 0
    /\ y' = y + 1
    /\ UNCHANGED <<pc, sbVars, nmVars, callVars, new_moons, vernal_cross, autumn_cross,
                   year_starts, nisan_arg, leap, feasts, outcome>>

fd_return ==
    /\ pc = "fd_loop"
    /\ y \notin Years
    /\ pc' = "fd_done"
    /\ UNCHANGED <<sbVars, nmVars, callVars, fdVars>>

NextFeasts ==
    \/ anchor_year \/ anchor_return
    \/ find_feast_days \/ find_feast_days_near \/ fd_skip \/ fd_return

SpecFeasts == InitFeasts /\ [][NextFeasts]_vars

\* 0-based position of date d in the sorted new-moon sequence
PosOf(d) == Cardinality({m \in new_moons : m < d})

\* C8: for consecutive anchored years yr, yr+1 whose data reaches past both
\* decisions: Nisan 1 of yr+1 is 13 new moons after Nisan 1 of yr when the
\* leap decision of yr is true, and 12 new moons after when it is false
C8_LeapYearMonthCount ==
    \A yr \in Years :
        (/\ yr + 1 \in Years
         /\ pc = "fd_done"
         /\ year_starts[yr] # 0 /\ year_starts[yr + 1] # 0
         /\ nisan_arg[yr] = year_starts[yr]
         /\ PosOf(year_starts[yr]) + 7 < Cardinality(new_moons)
         /\ \E m \in new_moons : m >= get_vernal_equinox(yr + 1))
            => PosOf(year_starts[yr + 1]) - PosOf(year_starts[yr])
                 = (IF leap[yr] = 1 THEN 13 ELSE 12)

\* C9: with Nisan 1 at position nisan_idx of the sorted new moons, every
\* feast (month m, day d) whose month exists in the list is mapped at
\* moons[nisan_idx + (m - 1) + s] + (d - 1), s = 1 iff m >= 7 in a leap year
C9_FeastProjection ==
    \A yr \in Years :
        (nisan_arg[yr] # 0 /\ nisan_arg[yr] \in new_moons) =>
            LET moons == SortedSeq(new_moons)
                nisan_idx == PosOf(nisan_arg[yr])
            IN  \A f \in 1..Len(FeastTable) :
                  \A k \in 1..Len(FeastTable[f].days) :
                    LET m == FeastTable[f].lunar_month
                        d == FeastTable[f].days[k]
                        s == IF m >= 7 /\ leap[yr] = 1 THEN 1 ELSE 0
                        idx == nisan_idx + (m - 1) + s
                    IN  idx < Len(moons) =>
                          /\ (moons[idx + 1] + (d - 1)) \in DOMAIN feasts[yr]
                          /\ feasts[yr][moons[idx + 1] + (d - 1)]
                               = FeastTable[f].name

C9_Witness ==
    \E yr \in Years :
        /\ nisan_arg[yr] \in new_moons
        /\ leap[yr] = 1
        /\ \E dt \in DOMAIN feasts[yr] :
              /\ feasts[yr][dt] = "Feast of Trumpets (Rosh Hashanah)"
              /\ PosOf(dt) = PosOf(nisan_arg[yr]) + 7
              /\ dt \in new_moons
        /\ \E dt \in DOMAIN feasts[yr] : feasts[yr][dt] = "Purim"

\* C10: with Nisan 1 = 2024-03-09 in the supplied new-moon list, Passover
\* (month 1, day 14) is placed on 2024-03-23
C10_Passover2024 ==
    \A yr \in Years :
        (nisan_arg[yr] = Ordinal(2024, 3, 9) /\ nisan_arg[yr] \in new_moons) =>
            /\ Ordinal(2024, 3, 23) \in DOMAIN feasts[yr]
            /\ feasts[yr][Ordinal(2024, 3, 23)] = "Passover (Pesach)"

\* the names found in the mapping a call returned
FeastNamesIn(mapping) == {mapping[dt] : dt \in DOMAIN mapping}

\* C11: a find_feast_days call that cannot locate Nisan 1, or whose list is
\* too short for some feast's month, ends in an error; a call that returns
\* hands back a mapping in which every feast of the table is present
C11_InsufficientDataError ==
    \A yr \in Years :
        nisan_arg[yr] # 0 =>
            LET moons == SortedSeq(new_moons)
                nisan_idx == find_nisan_idx(moons, nisan_arg[yr])
                short == \E f \in 1..Len(FeastTable) :
                            month_idx_of(nisan_idx, FeastTable[f].lunar_month,
                                         leap[yr]) >= Len(moons)
            IN  /\ (nisan_idx = None \/ short) => outcome[yr] = "raised"
                /\ outcome[yr] = "returned" =>
                      \A f \in 1..Len(FeastTable) :
                          FeastTable[f].name \in FeastNamesIn(feasts[yr])

\* days from the moon at offset 7 after Nisan to the autumn equinox of the
\* civil year of the Nisan 1 the call was given
DaysToAutumnEq(yr) ==
    LET moons == SortedSeq(new_moons)
        nisan_idx == find_nisan_idx(moons, nisan_arg[yr])
    IN  get_autumn_equinox(YearOf(nisan_arg[yr])) - moons[nisan_idx + 8]

\* C12: a call that located Nisan 1 decides "leap" exactly when the moon at
\* offset 7 exists and lies 0..5 days before (or on) the autumn equinox;
\* Trumpets (month 7, day 1) then sits on that moon, otherwise on the moon
\* at offset 6, and nowhere else
C12_LeapDecision ==
    \A yr \in Years :
        LET moons == SortedSeq(new_moons)
            nisan_idx == find_nisan_idx(moons, nisan_arg[yr])
        IN  (nisan_arg[yr] # 0 /\ nisan_idx # None) =>
              LET isLeap == /\ nisan_idx + 7 < Len(moons)
                            /\ DaysToAutumnEq(yr) >= 0
                            /\ DaysToAutumnEq(yr) <= 5
                  a == IF isLeap THEN nisan_idx + 7 ELSE nisan_idx + 6
                  trumpets == {dt \in DOMAIN feasts[yr] :
                                 feasts[yr][dt] = "Feast of Trumpets (Rosh Hashanah)"}
              IN  /\ (leap[yr] = 1) <=> isLeap
                  /\ leap[yr] \in {0, 1}
                  /\ trumpets = (IF a < Len(moons) THEN {moons[a + 1]} ELSE {})

\* a leap decision taken with the seventh moon on the equinox date itself
C12_Witness ==
    \E yr \in Years :
        /\ nisan_arg[yr] # 0
        /\ leap[yr] = 1
        /\ DaysToAutumnEq(yr) = 0
        /\ \E dt \in DOMAIN feasts[yr] :
              feasts[yr][dt] = "Feast of Trumpets (Rosh Hashanah)"

\* the years get_lunar_year_starts has gone through
Anchored == IF pc = "ys_loop" THEN {yr \in Years : yr < y} ELSE Years

\* B: the last new moon dated before the equinox of yr (0 = none)
MoonBefore(yr) ==
    LET vernal_eq == get_vernal_equinox(yr)
        S == {m \in new_moons : m < vernal_eq}
    IN  IF S = {} THEN 0 ELSE Max(S)

\* A: the first new moon that is not dated before the equinox of yr (0 = none)
MoonAfter(yr) ==
    LET vernal_eq == get_vernal_equinox(yr)
        S == {m \in new_moons : m >= vernal_eq}
    IN  IF S = {} THEN 0 ELSE Min(S)

\* days from Passover of the month starting at B (B + 13) to the equinox
PassoverBeforeEq(yr) == get_vernal_equinox(yr) - (MoonBefore(yr) + 13)

\* C13: with both bracketing new moons present, Nisan 1 is B when Passover
\* of B's month is at most 20 days before the equinox (or after it), and A
\* when it is more than 20 days before; exactly 20 days selects B
C13_TwentyDayRule ==
    \A yr \in Anchored :
        LET B == MoonBefore(yr)
            A == MoonAfter(yr)
            gap == PassoverBeforeEq(yr)
        IN  (B # 0 /\ A # 0) =>
                /\ gap <= 20 => year_starts[yr] = B
                /\ gap > 20 => year_starts[yr] = A

\* a year whose B lies more than 33 days before the equinox, anchored on A
C13_Witness ==
    \E yr \in Anchored :
        /\ MoonBefore(yr) # 0 /\ MoonAfter(yr) # 0
        /\ PassoverBeforeEq(yr) > 20
        /\ year_starts[yr] = MoonAfter(yr)

\* candidate_before and candidate_after of the pass for yr
Candidates(yr) == bracket(SortedSeq(new_moons), get_vernal_equinox(yr), 1, 0)

\* C14 as stated: the 'before' candidate is the latest new moon dated on or
\* before the equinox, the 'after' candidate the earliest dated strictly
\* after it; a new moon on the equinox date is the 'before' candidate
C14_OnOrBefore ==
    \A yr \in Anchored :
        LET vernal_eq == get_vernal_equinox(yr)
            onOrBefore == {m \in new_moons : m <= vernal_eq}
            after == {m \in new_moons : m > vernal_eq}
        IN  /\ Candidates(yr)[1] = (IF onOrBefore = {} THEN 0 ELSE Max(onOrBefore))
            /\ Candidates(yr)[2] = (IF after = {} THEN 0 ELSE Min(after))

\* C14 amended: the 'before' candidate is the latest new moon dated strictly
\* before the equinox, the 'after' candidate the earliest dated on or after
\* it; a new moon on the equinox date is the 'after' candidate
C14_StrictlyBefore ==
    \A yr \in Anchored :
        /\ Candidates(yr) = <<MoonBefore(yr), MoonAfter(yr)>>
        /\ get_vernal_equinox(yr) \in new_moons =>
              Candidates(yr)[2] = get_vernal_equinox(yr)

\* a year gone through whose equinox date carries a new moon
C14_Witness ==
    \E yr \in Anchored :
        /\ get_vernal_equinox(yr) \in new_moons
        /\ Candidates(yr)[1] # 0
        /\ Candidates(yr)[2] = get_vernal_equinox(yr)
        /\ year_starts[yr] # 0

\* C15: once get_lunar_year_starts has gone through a requested year, the
\* year has an anchor, whatever the collection
C15_AnchorForEveryYear == \A yr \in Anchored : year_starts[yr] # 0

\* C16: every Nisan 1 in the returned mapping is one of the dates of the
\* collection passed in
C16_AnchorIsSuppliedMoon ==
    \A yr \in Anchored : year_starts[yr] # 0 => year_starts[yr] \in new_moons

\* all requested years gone through and anchored, the first on its 'before'
\* candidate
C16_Witness ==
    /\ Anchored = Years
    /\ \A yr \in Years : year_starts[yr] \in new_moons
    /\ year_starts[Min(Years)] = MoonBefore(Min(Years))

(***************************************************************************)
(* get_moon_phase called on instants of one calendar date                  *)
(***************************************************************************)
\* bound: number of get_moon_phase calls in a run
MaxCalls == 2

\* the angles the position model can report, in whole degrees
Angles == 0..359

\* hour-of-day of the instants handed to get_moon_phase
Hours == {0, 6, 12, 18}

\* the angle the position model reports for the instant date_obs = the
\* observed date at the given hour: Time(date_obs.strftime(...)) keeps the
\* caller's time of day, and the Moon gains about 12 degrees on the Sun per
\* day, one degree per two hours
separation(hour) == (ph_noon_angle + 360 + ((hour - 12) \div 2)) % 360

InitPhase ==
    /\ pc = "ph_idle"
    /\ ph_noon_angle \in Angles
    /\ ph_calls = <<>>
    /\ notPhIdle
    /\ sbIdle /\ nmIdle /\ fdIdle

\* get_moon_phase(date_obs) returning (phase, phase_angle)
get_moon_phase_call ==
    /\ Len(ph_calls) < MaxCalls
    /\ \E hour \in Hours :
          LET phase_angle_obs == separation(hour)
          IN  ph_calls' = Append(ph_calls,
                                 [hour |-> hour,
                                  phase |-> get_moon_phase(phase_angle_obs),
                                  angle |-> phase_angle_obs])
    /\ UNCHANGED <<pc, sbVars, nmVars, fdVars, ph_noon_angle, notPh>>

NextPhase == get_moon_phase_call

SpecPhase == InitPhase /\ [][NextPhase]_vars

\* the ranges of the phase names: lower end, upper end, and whether each
\* end belongs to the range
PhaseRanges == <<
    [name |-> "New Moon",        lo |-> 0,   loIn |-> TRUE,  hi |-> 12,  hiIn |-> TRUE],
    [name |-> "Waxing Crescent", lo |-> 12,  loIn |-> FALSE, hi |-> 60,  hiIn |-> FALSE],
    [name |-> "First Quarter",   lo |-> 60,  loIn |-> TRUE,  hi |-> 110, hiIn |-> FALSE],
    [name |-> "Waxing Gibbous",  lo |-> 110, loIn |-> TRUE,  hi |-> 160, hiIn |-> FALSE],
    [name |-> "Full Moon",       lo |-> 160, loIn |-> TRUE,  hi |-> 210, hiIn |-> FALSE],
    [name |-> "Waning Gibbous",  lo |-> 210, loIn |-> TRUE,  hi |-> 260, hiIn |-> FALSE],
    [name |-> "Third Quarter",   lo |-> 260, loIn |-> TRUE,  hi |-> 310, hiIn |-> FALSE],
    [name |-> "Waning Crescent", lo |-> 310, loIn |-> TRUE,  hi |-> 360, hiIn |-> FALSE] >>

InRange(a, r) ==
    /\ IF r.loIn THEN r.lo <= a ELSE r.lo < a
    /\ IF r.hiIn THEN a <= r.hi ELSE a < r.hi

\* C17: every call on an angle of [0, 360) returns a phase name; the angle
\* lies in exactly one of the eight ranges and the name returned is that
\* range's name
C17_PhaseRanges ==
    \A i \in 1..Len(ph_calls) :
        LET a == ph_calls[i].angle
            hit == {k \in 1..Len(PhaseRanges) : InRange(a, PhaseRanges[k])}
        IN  /\ a \in Angles
            /\ Cardinality(hit) = 1
            /\ \A k \in hit : ph_calls[i].phase = PhaseRanges[k].name

\* calls on the threshold angle and on an angle just above it
C17_Witness ==
    /\ \E i \in 1..Len(ph_calls) :
          ph_calls[i].angle = 12 /\ ph_calls[i].phase = "New Moon"
    /\ \E i \in 1..Len(ph_calls) :
          ph_calls[i].angle > 12 /\ ph_calls[i].phase = "Waxing Crescent"

\* C18: calls on instants of the same calendar date return the same phase
\* and the same angle, whatever the time of day
C18_TimeOfDayIrrelevant ==
    \A i, j \in 1..Len(ph_calls) :
        /\ ph_calls[i].phase = ph_calls[j].phase
        /\ ph_calls[i].angle = ph_calls[j].angle

(***************************************************************************)
(* get_vernal_equinox(y) and get_autumn_equinox(y) called once each        *)
(***************************************************************************)
\* the oracle's range: the day of March (September) from which the noon
\* declination has the sign looked for, from before the window to after it
VernalOracleDays == 16..26

AutumnOracleDays == 18..28

InitEquinox ==
    /\ pc = "eq_idle"
    /\ y \in Years
    /\ vernal_cross \in VernalOracleDays
    /\ autumn_cross \in AutumnOracleDays
    /\ eq_vernal = 0 /\ eq_autumn = 0
    /\ new_moons = {} /\ year_starts = <<>> /\ nisan_arg = <<>>
    /\ leap = <<>> /\ feasts = <<>> /\ outcome = <<>>
    /\ notEqIdle
    /\ sbIdle /\ nmIdle

call_vernal_equinox ==
    /\ eq_vernal = 0
    /\ eq_vernal' = get_vernal_equinox(y)
    /\ UNCHANGED <<pc, sbVars, nmVars, fdVars, notEq, eq_autumn>>

call_autumn_equinox ==
    /\ eq_autumn = 0
    /\ eq_autumn' = get_autumn_equinox(y)
    /\ UNCHANGED <<pc, sbVars, nmVars, fdVars, notEq, eq_vernal>>

NextEquinox == call_vernal_equinox \/ call_autumn_equinox

SpecEquinox == InitEquinox /\ [][NextEquinox]_vars

\* noon declination >= 0 on the given day of March
DecNonNegative(day) == day >= vernal_cross

\* noon declination <= 0 on the given day of September
DecNonPositive(day) == day >= autumn_cross

\* C19: the vernal search returns a day of Mar 18..24: the earliest of them
\* with declination >= 0, or Mar 20 when there is none; the autumn search
\* returns a day of Sep 20..26: the earliest of them with declination <= 0,
\* or Sep 22 when there is none
C19_EquinoxInsideWindow ==
    /\ eq_vernal # 0 =>
          \E d \in 18..24 :
              /\ eq_vernal = Ordinal(y, 3, d)
              /\ \/ DecNonNegative(d) /\ \A e \in 18..(d - 1) : ~DecNonNegative(e)
                 \/ d = 20 /\ \A e \in 18..24 : ~DecNonNegative(e)
    /\ eq_autumn # 0 =>
          \E d \in 20..26 :
              /\ eq_autumn = Ordinal(y, 9, d)
              /\ \/ DecNonPositive(d) /\ \A e \in 20..(d - 1) : ~DecNonPositive(e)
                 \/ d = 22 /\ \A e \in 20..26 : ~DecNonPositive(e)

\* the vernal search ending on the last day of its window and the autumn
\* search falling back to Sep 22
C19_Witness ==
    /\ vernal_cross = 24 /\ eq_vernal = Ordinal(y, 3, 24)
    /\ autumn_cross > 26 /\ eq_autumn = Ordinal(y, 9, 22)

\* C20: an enumerate_new_moons call whose end_date is before its start_date
\* does not return a result: once it has left its loop it has raised
\* InvalidRange
C20_InvalidRangeRaised ==
    (end_date < start_date /\ pc \in {"nm_done", "nm_raised"}) => pc = "nm_raised"

C22_GapsOneToSeven ==
    (pc = "sb_done" /\ \A i \in 1..(Len(sb_new_moons) - 1) :
                          sb_new_moons[i] < sb_new_moons[i + 1])
        => \A k \in 1..(Len(nms) - 1) :
              /\ nms[k + 1] - nms[k] >= 1
              /\ nms[k + 1] - nms[k] <= 7

\* a returned list with a 1-day step, a full 7-day step into a new moon and
\* new moons 8 days apart
C22_Witness ==
    /\ pc = "sb_done"
    /\ \E k \in 1..(Len(nms) - 1) : nms[k + 1] - nms[k] = 1
    /\ \E i \in 1..(Len(sb_new_moons) - 1) :
          sb_new_moons[i + 1] - sb_new_moons[i] = 28
    /\ \E i \in 1..(Len(sb_new_moons) - 1) :
          sb_new_moons[i + 1] - sb_new_moons[i] = 8

\* the dates a call's mapping gives to the Feast of Tabernacles
TabernaclesDates(yr) ==
    {dt \in DOMAIN feasts[yr] : feasts[yr][dt] = "Feast of Tabernacles (Sukkot)"}

\* the call for yr located Nisan 1 and the list reaches the month of the
\* autumn feasts
HasAutumnMonth(yr) ==
    LET moons == SortedSeq(new_moons)
        nisan_idx == find_nisan_idx(moons, nisan_arg[yr])
    IN  /\ nisan_arg[yr] # 0
        /\ nisan_idx # None
        /\ month_idx_of(nisan_idx, 7, leap[yr]) < Len(moons)

RfNumLengths == 13

\* the month lengths enumerate_new_moons can yield
RfMonthLengths == {29, 30}

\* the default Nisan 1 of main() and the 2024 one of its comment
RfStarts == {Ordinal(2024, 3, 9), Ordinal(2025, 2, 27)}

\* year_end - year_start: main()'s regular and leap year length, and longer
RfYearLengths == {354, 384, 414}

\* the class FeastDays of refactored.py, in definition order
rf_FeastTable == <<
    [name |-> "Passover (Pesach)", lunar_month |-> 1,
        days |-> <<14, 15, 16, 17, 18, 19, 20, 21>>],
    [name |-> "Firstfruits (Wave Sheaf)", lunar_month |-> 1, days |-> <<16>>],
    [name |-> "Feast of Weeks (Shavuot)", lunar_month |-> 3, days |-> <<6>>],
    [name |-> "Feast of Trumpets (Rosh Hashanah)", lunar_month |-> 7,
        days |-> <<0, 1>>],
    [name |-> "Day of Atonement (Yom Kippur)", lunar_month |-> 7,
        days |-> <<9, 10>>],
    [name |-> "Feast of Tabernacles (Sukkot)", lunar_month |-> 7,
        days |-> <<14, 15, 16, 17, 18, 19, 20, 21, 22>>],
    [name |-> "Purim", lunar_month |-> 12, days |-> <<13, 14, 15>>],
    [name |-> "Hanukkah (Feast of Dedication)", lunar_month |-> 9,
        days |-> <<24, 25, 26, 27, 28, 29, 30>>],
    [name |-> "Hanukkah (Feast of Dedication)", lunar_month |-> 10,
        days |-> <<1, 2>>] >>

\* sum of the first n month lengths; a missing one counts as 29 days
RECURSIVE rf_days_until_month(_, _)
rf_days_until_month(month_lengths, n) ==
    IF n <= 0 THEN 0
    ELSE rf_days_until_month(month_lengths, n - 1)
           + (IF n - 1 < Len(month_lengths) THEN month_lengths[n] ELSE 29)

\* needs_leap_month: the 7th new moon from Nisan 1 falls on Aug 20..31
rf_needs_leap_month(nisan_1_date, month_lengths) ==
    IF Len(month_lengths) + 1 < 7 THEN FALSE
    ELSE LET nm_7 == nisan_1_date + rf_days_until_month(month_lengths, 6)
             yr == YearOf(nm_7)
         IN  Ordinal(yr, 8, 20) <= nm_7 /\ nm_7 <= Ordinal(yr, 8, 31)

\* actual_new_moon_index of add_months_and_days
rf_actual_new_moon_index(months, is_leap_year) ==
    IF is_leap_year /\ months > 6 THEN months ELSE months - 1

\* add_months_and_days(lunar_year_start, months, days, is_leap_year)
rf_add_months_and_days(lunar_year_start, months, days, is_leap_year, month_lengths) ==
    LET nth_new_moon == lunar_year_start
            + rf_days_until_month(month_lengths,
                                  rf_actual_new_moon_index(months, is_leap_year))
    IN  nth_new_moon + days

\* lunar_month of find_feast_days: Purim moves to month 13 in a leap year
rf_lunar_month(fd, is_leap) ==
    IF fd.name = "Purim" /\ is_leap THEN 13 ELSE fd.lunar_month

\* for day in fd.value.days: the dates up to year_end enter the result
RECURSIVE rf_put_days(_, _, _, _, _, _, _)
rf_put_days(res, fd, k, year_start, year_end, is_leap, month_lengths) ==
    IF k > Len(fd.days) THEN res
    ELSE LET feast_date == rf_add_months_and_days(year_start,
                               rf_lunar_month(fd, is_leap), fd.days[k],
                               is_leap, month_lengths)
             res2 == IF feast_date <= year_end
                     THEN (feast_date :> fd.name) @@ res ELSE res
         IN  rf_put_days(res2, fd, k + 1, year_start, year_end, is_leap,
                         month_lengths)

\* for fd in FeastDays
RECURSIVE rf_put_feasts(_, _, _, _, _, _)
rf_put_feasts(res, f, year_start, year_end, is_leap, month_lengths) ==
    IF f > Len(rf_FeastTable) THEN res
    ELSE rf_put_feasts(rf_put_days(res, rf_FeastTable[f], 1, year_start,
                                   year_end, is_leap, month_lengths),
                       f + 1, year_start, year_end, is_leap, month_lengths)

InitRefactored ==
    /\ pc = "rf_call"
    /\ rf_start \in RfStarts
    /\ \E len \in RfYearLengths : rf_end = rf_start + len
    /\ rf_lengths \in [1..RfNumLengths -> RfMonthLengths]
    /\ rf_leap = None
    /\ rf_feasts = <<>>
    /\ notRfIdle
    /\ sbIdle /\ nmIdle /\ fdIdle

\* FeastDays.find_feast_days(year_start, year_end)
rf_find_feast_days ==
    /\ pc = "rf_call"
    /\ LET is_leap == rf_needs_leap_month(rf_start, rf_lengths)
       IN  /\ rf_leap' = IF is_leap THEN 1 ELSE 0
           /\ rf_feasts' = rf_put_feasts(<<>>, 1, rf_start, rf_end, is_leap,
                                         rf_lengths)
    /\ pc' = "rf_done"
    /\ UNCHANGED <<sbVars, nmVars, fdVars, notRf, rf_start, rf_end, rf_lengths>>

NextRefactored == rf_find_feast_days

SpecRefactored == InitRefactored /\ [][NextRefactored]_vars

\* the new moon at the given offset from Nisan 1 (offset 0 = Nisan 1)
RfNewMoon(offset) == rf_start + rf_days_until_month(rf_lengths, offset)

\* the dates the returned mapping gives to Purim
RfPurimDates == {dt \in DOMAIN rf_feasts : rf_feasts[dt] = "Purim"}

\* C24: the Purim dates returned are days 13..15 counted from the new moon
\* at offset 12 from Nisan 1 in a leap year and at offset 11 in a regular
\* year, and all of them when year_end lies behind them
C24_PurimInAdarII ==
    pc = "rf_done" =>
        LET base == RfNewMoon(IF rf_leap = 1 THEN 12 ELSE 11)
        IN  /\ RfPurimDates \subseteq {base + 13, base + 14, base + 15}
            /\ rf_end >= base + 15 =>
                  RfPurimDates = {base + 13, base + 14, base + 15}

\* enumerate_new_moons is a sequential loop: a step that can be taken is
\* eventually taken
SpecNewMoonsFair == SpecNewMoons /\ WF_vars(NextNewMoons)

\* C25: every enumerate_new_moons call returns; each loop iteration moves
\* date_cursor forward (one day, or to first_day + 29 past the cursor after
\* a record) while the loop runs only up to end_date, and each backward walk
\* step moves first_day one day down and not below start
C25_Terminates ==
    /\ <>(pc = "nm_done")
    /\ [](pc = "nm_walk" => date_cursor <= end_date /\ first_day >= start_date)
    /\ [][/\ (pc = "nm_loop" /\ pc' = "nm_loop") => date_cursor' = date_cursor + 1
          /\ (pc = "nm_walk" /\ pc' = "nm_loop") =>
                date_cursor' = first_day + 29 /\ date_cursor' > date_cursor
          /\ (pc = "nm_loop" /\ pc' = "nm_walk") =>
                date_cursor' = date_cursor /\ date_cursor <= end_date
          /\ (pc = "nm_walk" /\ pc' = "nm_walk") =>
                /\ first_day' = first_day - 1 /\ first_day' >= start_date
                /\ date_cursor' = date_cursor]_vars

\* a call over the longest range has returned with three records, the first
\* found by walking back from the cursor
C25_Witness ==
    /\ pc = "nm_done"
    /\ end_date = MaxEnd
    /\ Len(result) >= 3
    /\ \E q \in queried : q < date_cursor /\ phase_on(q) = "New Moon" /\ q \notin Range(result)

\* C26: when the new moons bracketing the equinox of yr both exist and are
\* at most 33 days apart, Passover of the earlier one's month is at most 20
\* days before the equinox and Nisan 1 is that earlier new moon, the latest
\* one strictly before the equinox
C26_BeforeCandidateWins ==
    \A yr \in Anchored :
        LET B == MoonBefore(yr)
            A == MoonAfter(yr)
        IN  (B # 0 /\ A # 0 /\ A - B <= 33) =>
                /\ PassoverBeforeEq(yr) <= 20
                /\ year_starts[yr] = B

\* a year whose new moon after the equinox falls on the equinox date, a full
\* 30-day month after the one before
C26_Witness ==
    \E yr \in Anchored :
        /\ MoonBefore(yr) # 0
        /\ MoonAfter(yr) = get_vernal_equinox(yr)
        /\ MoonAfter(yr) - MoonBefore(yr) = 30
        /\ PassoverBeforeEq(yr) = 17
        /\ year_starts[yr] = MoonBefore(yr)

\* C27: the anchor returned for year yr is a date of civil year yr
C27_AnchorInItsYear ==
    \A yr \in Anchored : year_starts[yr] # 0 => YearOf(year_starts[yr]) = yr

(***************************************************************************)
(* FeastDays.find_feast_days(year_start) without a new-moon list (the      *)
(* fallback through add_months_and_days) next to the call with the list    *)
(***************************************************************************)
\* bound: number of lunations the phase oracle covers
FbNumLunations == 8

\* Nisan 1 of the two calls: one year that turns out leap, one that does not
FbStarts == {Ordinal(2024, 2, 25), Ordinal(2024, 3, 9)}

\* the oracle's onsets: Nisan 1 and the new moons 29 or 30 days apart after it
RECURSIVE FbOnsetSeqs(_, _)
FbOnsetSeqs(first, n) ==
    IF n = 1 THEN {<<first>>}
    ELSE {Append(s, s[Len(s)] + g) : s \in FbOnsetSeqs(first, n - 1),
                                     g \in LunationGaps}

\* the last day for which the oracle knows the phase
FbHorizon == onsets[Len(onsets)] + 28

\* the days inside a lunation's run of New Moon noons: the oracle gives no
\* other day the phase New Moon
FbRunDays == {onsets[i] + j : i \in 1..Len(onsets), j \in 0..(MaxRun - 1)}

\* the day on which the while loop of add_months_and_days next counts a
\* lunation when it stands on day `from` having seen yesterday_phase: the
\* first queried day that is New Moon while the day queried before it was
\* not; None when the oracle has no such day
MinOrNone(days) == IF days = {} THEN None ELSE Min(days)

next_counted_day(from, yesterday_phase) ==
    MinOrNone({d \in FbRunDays :
                  /\ from <= d /\ d <= FbHorizon
                  /\ phase_on(d) = "New Moon"
                  /\ IF d = from THEN yesterday_phase # "New Moon"
                     ELSE phase_on(d - 1) # "New Moon"})

\* the while loop of add_months_and_days, one counted lunation per unfolding;
\* None when it runs past the oracle
RECURSIVE add_months_loop(_, _, _, _)
\* the body on the day `hit` where the lunation is counted: the 28-day skip
\* unless the count is complete, then the one-day step, yesterday_phase being
\* New Moon
add_months_counted(hit, lunar_months_counted, months) ==
    IF hit = None THEN None
    ELSE add_months_loop((IF lunar_months_counted < months - 1 THEN hit + 28
                          ELSE hit) + 1,
                         lunar_months_counted, "New Moon", months)

add_months_loop(cursor, lunar_months_counted, yesterday_phase, months) ==
    IF ~(lunar_months_counted < months - 1) THEN cursor
    ELSE add_months_counted(next_counted_day(cursor, yesterday_phase),
                            lunar_months_counted + 1, months)

\* add_months_and_days up to its return statement: date_cursor when the
\* while loop has ended
add_months_cursor(lunar_year_start, months) ==
    add_months_loop(lunar_year_start, 0, phase_on(lunar_year_start - 1), months)

\* the dict comprehension of the fallback: for d in fd.value.days the key
\* add_months_and_days(year_start, months, d), which is date_cursor + d with
\* the cursor of the feast's month computed once for all its days
RECURSIVE fb_put_days(_, _, _, _)
fb_put_days(res, fd, k, cursor) ==
    IF k > Len(fd.days) \/ cursor = None THEN res
    ELSE fb_put_days((cursor + fd.days[k] :> fd.name) @@ res, fd, k + 1, cursor)

RECURSIVE fb_put_feasts(_, _, _)
fb_put_feasts(res, f, year_start) ==
    IF f > Len(FeastTable) THEN res
    ELSE fb_put_feasts(fb_put_days(res, FeastTable[f], 1,
                                   add_months_cursor(year_start,
                                                     FeastTable[f].lunar_month)),
                       f + 1, year_start)

InitFallback ==
    /\ pc = "fb_call"
    /\ fb_start \in FbStarts
    /\ onsets \in FbOnsetSeqs(fb_start, FbNumLunations)
    /\ \E r \in 1..2 : runs = [i \in 1..FbNumLunations |-> r]
    /\ autumn_cross \in AutumnCrossDays
    /\ fb_called = {} /\ fb_fallback = <<>> /\ fb_from_moons = <<>> /\ fb_leap = 0
    /\ start_date = 0 /\ end_date = 0 /\ date_cursor = 0 /\ first_day = 0
    /\ result = <<>> /\ new_moon_count = 0 /\ queried = {}
    /\ new_moons = {} /\ vernal_cross = 0 /\ y = 0
    /\ year_starts = <<>> /\ nisan_arg = <<>> /\ leap = <<>> /\ feasts = <<>>
    /\ outcome = <<>>
    /\ notFbIdle
    /\ sbIdle

\* find_feast_days(year_start): new_moons is None, the fallback
find_feast_days_fallback ==
    /\ "fallback" \notin fb_called
    /\ fb_called' = fb_called \cup {"fallback"}
    /\ fb_fallback' = fb_put_feasts(<<>>, 1, fb_start)
    /\ UNCHANGED <<pc, sbVars, nmVars, fdVars, notFb, fb_start, fb_from_moons,
                   fb_leap>>

\* find_feast_days(year_start, new_moons) with the new moons of the oracle
find_feast_days_with_list ==
    /\ "list" \notin fb_called
    /\ fb_called' = fb_called \cup {"list"}
    /\ LET r == find_feast_days_from_moons(fb_start, Range(onsets))
       IN  /\ fb_from_moons' = r.result
           /\ fb_leap' = r.leap_offset
    /\ UNCHANGED <<pc, sbVars, nmVars, fdVars, notFb, fb_start, fb_fallback>>

NextFallback == find_feast_days_fallback \/ find_feast_days_with_list

SpecFallback == InitFallback /\ [][NextFallback]_vars

\* the dates a returned mapping gives to the feast of the given name
DatesOf(mapping, name) == {dt \in DOMAIN mapping : mapping[dt] = name}

\* C28: in a non-leap year every feast that both calls return is returned
\* on the same dates by the call without the list and the call with it
C28_FallbackAgrees ==
    (fb_called = {"fallback", "list"} /\ fb_leap = 0) =>
        \A f \in 1..Len(FeastTable) :
            LET name == FeastTable[f].name
            IN  (DatesOf(fb_fallback, name) # {} /\ DatesOf(fb_from_moons, name) # {})
                  => DatesOf(fb_fallback, name) = DatesOf(fb_from_moons, name)

(***************************************************************************)
(* The web app: update_calendar                                            *)
(***************************************************************************)
\* the years the calendar is moved through (2024 is a leap year)
CalYears == 2023..2025

CalFirst == Ordinal(2023, 1, 1)

CalLast == Ordinal(2025, 12, 31)

\* the days a day cell can carry: the cells of any month's grid
CalCellDays == 1..31

KeyDirections == {"", "left", "right", "up", "down"}

\* current.year, current.month, current.day of a date given as ordinal
DateOf(n) ==
    LET yr == YearOf(n)
        mo == CHOOSE m \in 1..12 :
                  Ordinal(yr, m, 1) <= n /\ n <= Ordinal(yr, m, DaysInMonth(yr, m))
    IN  [year |-> yr, month |-> mo, day |-> n - Ordinal(yr, mo, 1) + 1]

\* the end of the callback without the clamp: day is stored as it is
cal_clamp_none(date) == date

\* max_day = calendar.monthrange(year, month)[1]; day = min(day, max_day)
cal_clamp(date) ==
    LET max_day == DaysInMonth(date.year, date.month)
    IN  [date EXCEPT !.day = IF date.day < max_day THEN date.day ELSE max_day]

\* triggered == "prev-month"
cal_prev_month(date) ==
    IF date.month - 1 < 1
    THEN [year |-> date.year - 1, month |-> 12, day |-> 1]
    ELSE [year |-> date.year, month |-> date.month - 1, day |-> 1]

\* triggered == "next-month"
cal_next_month(date) ==
    IF date.month + 1 > 12
    THEN [year |-> date.year + 1, month |-> 1, day |-> 1]
    ELSE [year |-> date.year, month |-> date.month + 1, day |-> 1]

\* the timedelta of an arrow key
key_delta(key_dir) ==
    IF key_dir = "right" THEN 1
    ELSE IF key_dir = "left" THEN -1
    ELSE IF key_dir = "down" THEN 7
    ELSE IF key_dir = "up" THEN -7
    ELSE 0

\* triggered == "key-press" and key_dir
cal_key_press(date, key_dir) ==
    IF key_dir = "" THEN date
    ELSE DateOf(Ordinal(date.year, date.month, date.day) + key_delta(key_dir))

IsValidDate(date) ==
    /\ date.month \in 1..12
    /\ date.day \in 1..DaysInMonth(date.year, date.month)

\* the store holds today's date when the page is loaded
InitCalendar ==
    /\ pc = "cal"
    /\ \E yr \in CalYears, mo \in 1..12 :
          \E d \in 1..DaysInMonth(yr, mo) :
              cal_date = [year |-> yr, month |-> mo, day |-> d]
    /\ cal_event = [triggered |-> "", day |-> 0, key_dir |-> ""]
    /\ sbIdle /\ nmIdle /\ fdIdle /\ notCalIdle

on_prev_month ==
    /\ pc = "cal"
    /\ cal_prev_month(cal_date).year \in CalYears
    /\ cal_date' = cal_clamp(cal_prev_month(cal_date))
    /\ cal_event' = [triggered |-> "prev-month", day |-> 0, key_dir |-> ""]
    /\ UNCHANGED <<pc, sbVars, nmVars, fdVars, notCal>>

on_next_month ==
    /\ pc = "cal"
    /\ cal_next_month(cal_date).year \in CalYears
    /\ cal_date' = cal_clamp(cal_next_month(cal_date))
    /\ cal_event' = [triggered |-> "next-month", day |-> 0, key_dir |-> ""]
    /\ UNCHANGED <<pc, sbVars, nmVars, fdVars, notCal>>

on_day_cell ==
    /\ pc = "cal"
    /\ \E d \in CalCellDays :
          /\ cal_date' = cal_clamp([cal_date EXCEPT !.day = d])
          /\ cal_event' = [triggered |-> "day-cell", day |-> d, key_dir |-> ""]
    /\ UNCHANGED <<pc, sbVars, nmVars, fdVars, notCal>>

on_key_press ==
    /\ pc = "cal"
    /\ \E key_dir \in KeyDirections :
          LET moved == Ordinal(cal_date.year, cal_date.month, cal_date.day)
                         + key_delta(key_dir)
          IN  /\ CalFirst <= moved /\ moved <= CalLast
              /\ cal_date' = cal_clamp(cal_key_press(cal_date, key_dir))
              /\ cal_event' = [triggered |-> "key-press", day |-> 0,
                               key_dir |-> key_dir]
    /\ UNCHANGED <<pc, sbVars, nmVars, fdVars, notCal>>

NextCalendar == on_prev_month \/ on_next_month \/ on_day_cell \/ on_key_press

SpecCalendar == InitCalendar /\ [][NextCalendar]_vars

\* C29: the stored date is always a valid calendar date; a prev-month or
\* next-month event moves to day 1 of the neighbouring month, wrapping across
\* the year boundary; a key-press event with an empty direction leaves the
\* date unchanged
C29_DateStaysValid ==
    /\ [](pc = "cal" => IsValidDate(cal_date))
    /\ [][pc = "cal" =>
            /\ cal_event'.triggered = "prev-month" =>
                  /\ cal_date'.day = 1
                  /\ IF cal_date.month = 1
                     THEN cal_date'.month = 12 /\ cal_date'.year = cal_date.year - 1
                     ELSE /\ cal_date'.month = cal_date.month - 1
                          /\ cal_date'.year = cal_date.year
            /\ cal_event'.triggered = "next-month" =>
                  /\ cal_date'.day = 1
                  /\ IF cal_date.month = 12
                     THEN cal_date'.month = 1 /\ cal_date'.year = cal_date.year + 1
                     ELSE /\ cal_date'.month = cal_date.month + 1
                          /\ cal_date'.year = cal_date.year
            /\ (cal_event'.triggered = "key-press" /\ cal_event'.key_dir = "") =>
                  cal_date' = cal_date]_vars

\* a click on a cell of day 31 has been clamped to the last day of February
\* of a leap year
C29_Witness ==
    /\ pc = "cal"
    /\ cal_event.triggered = "day-cell" /\ cal_event.day = 31
    /\ cal_date = [year |-> 2024, month |-> 2, day |-> 29]

(***************************************************************************)
(* tools/export_calendar_data.py: main                                     *)
(***************************************************************************)
\* START: the civil date of day 0 of the scan; YEAR_START = YEAR_END = 2024
ExStart == Ordinal(2024, 2, 15)

ExYear == 2024

\* END as days after START
ExEnds == {29, 58}

\* enumerate_sabbaths(new_moons): reduce(fn, new_moons[1:], [new_moons[0]])
RECURSIVE reduce_fn(_, _, _)
reduce_fn(acc, moons, i) ==
    IF i > Len(moons) THEN acc ELSE reduce_fn(fn(acc, moons[i]), moons, i + 1)

enumerate_sabbaths_of(moons) == reduce_fn(<<moons[1]>>, moons, 2)

\* the civil dates of the scan's days
ExCivil(S) == {ExStart + d : d \in S}

InitExport ==
    /\ pc = "nm_loop"
    /\ onsets \in OnsetSeqs(NumLunations)
    /\ runs \in [1..NumLunations -> 1..MaxRun]
    /\ start_date = 0
    /\ end_date \in ExEnds
    /\ date_cursor = start_date
    /\ first_day = start_date
    /\ result = <<>>
    /\ new_moon_count = 0
    /\ queried = {}
    /\ vernal_cross = 21     \* the declination turns positive on March 21
    /\ new_moons = {} /\ autumn_cross = 0 /\ y = 0
    /\ year_starts = <<>> /\ nisan_arg = <<>> /\ leap = <<>> /\ feasts = <<>>
    /\ outcome = <<>>
    /\ sbIdle
    /\ callIdle

\* main() after enumerate_new_moons has returned raw_moons: the Sabbaths, the
\* year starts, the feasts, the day loop and the output
export_main ==
    /\ pc = "nm_done"
    /\ IF result = <<>>
       THEN \* enumerate_sabbaths: new_moons[0] raises IndexError
            /\ pc' = "ex_raised"
            /\ UNCHANGED ex_output
       ELSE LET sorted_moon_dates == SortedSeq(Range(result))
                sabbath_list == enumerate_sabbaths_of(sorted_moon_dates)
                civil_moons == ExCivil(Range(result))
                start == year_start_of(civil_moons, ExYear)
                new_year_dates == IF start = 0 THEN {} ELSE {start - ExStart}
                feast_dates ==
                    IF start = 0 THEN <<>>
                    ELSE find_feast_days_from_moons(start, civil_moons).result
                days == [current \in start_date..(end_date - 1) |->
                            [phase |-> phase_on(current),
                             isNewMoon |-> current \in Range(result),
                             isSabbath |-> current \in Range(sabbath_list),
                             isNewYear |-> current \in new_year_dates,
                             feast |-> IF ExStart + current \in DOMAIN feast_dates
                                       THEN feast_dates[ExStart + current]
                                       ELSE ""]]
            IN  /\ ex_output' =
                      [dateRange |-> [start |-> start_date, end |-> end_date - 1],
                       newMoons |-> sorted_moon_dates,
                       sabbaths |-> SortedSeq(Range(sabbath_list)),
                       newYears |-> SortedSeq(new_year_dates),
                       days |-> days]
                /\ pc' = "ex_done"
    /\ UNCHANGED <<sbVars, nmVars, fdVars, notEx>>

NextExport ==
    export_main \/ nm_exit \/ nm_step_day \/ nm_found \/ nm_walk_back \/ nm_record

SpecExport == InitExport /\ [][NextExport]_vars

\* a listed date lies inside dateRange
InDateRange(d) ==
    ex_output.dateRange.start <= d /\ d <= ex_output.dateRange.end

====
